---- MODULE Spec2Model ----
(***************************************************************************)
(* Model of gcopter/cubic_spline.hpp: the BandedSystem band-matrix solver  *)
(* (create, destroy, operator(), factorizeLU, solve, solveAdj) and the     *)
(* CubicSpline fitter built on it (setConditions, setInnerPoints,          *)
(* getStretchEnergy).  Doubles are modelled by exact rationals <<n, d>>,   *)
(* extended with <<1,0>> (+inf), <<-1,0>> (-inf) and <<0,0>> (NaN) so that *)
(* a division by a zero pivot behaves as IEEE arithmetic does (rounding   *)
(* and the sign of zero are not modelled).                                *)
(***************************************************************************)
EXTENDS Integers, Sequences, FiniteSets, TLC

VARIABLES
  heap,      \* the free store: address -> [live, cells]
  A,         \* BandedSystem object: [N, lowerBw, upperBw, ptrData]
  b,         \* Eigen matrix b: sequence of rows (CubicSpline::b / solve's argument)
  N,         \* CubicSpline::N
  headP,     \* CubicSpline::headP
  tailP,     \* CubicSpline::tailP
  phase,     \* CubicSpline life cycle: position of the caller
  energy,    \* the out-parameter of getStretchEnergy
  inPs,      \* the argument of the last setInnerPoints call
  outcome,   \* what the caller observed of the last call
  dfree,     \* TRUE once delete[] was applied to a block that is not live
  hist,      \* history: "first" configuration, "reconf" (setConditions ran on a
             \* configured object), "refit" (setInnerPoints ran on a fitted object)
  AT,        \* a second BandedSystem object holding the explicit transpose
  A0,        \* the dense matrix the caller wrote into A
  B0,        \* the right-hand side handed to the solvers
  bAdj,      \* the matrix handed to solveAdj
  bT,        \* the matrix handed to AT.solve
  pc,        \* position of the band-solver driver
  cur,       \* position of the storage-mapping driver
  owner      \* offset -> set of (i,j) entries written through operator()

vars == <<heap, A, b, N, headP, tailP, phase, energy, inPs, outcome, dfree, hist,
          AT, A0, B0, bAdj, bT, pc, cur, owner>>

----------------------------------------------------------------------------
(* Bounds of the model *)
MaxN == 3        \* largest band matrix in the solver driver
MaxBw == 1       \* largest lower / upper band width in the solver driver
MaxCols == 2     \* most right-hand-side columns in the solver driver
MaxSeg == 3      \* largest pieceNum handed to setConditions
HeapSize == 2    \* number of distinct addresses the allocator can hand out

----------------------------------------------------------------------------
(* double arithmetic, exact *)
Abs(x) == IF x < 0 THEN -x ELSE x
Sign(x) == IF x < 0 THEN -1 ELSE IF x > 0 THEN 1 ELSE 0
Min(x, y) == IF x < y THEN x ELSE y
Max(x, y) == IF x > y THEN x ELSE y

RECURSIVE GCD(_, _)
GCD(x, y) == IF y = 0 THEN x ELSE GCD(y, x % y)

Norm(n, d) ==
  IF d = 0 THEN <<Sign(n), 0>>
  ELSE LET g == GCD(Abs(n), Abs(d)) IN <<Sign(d) * (n \div g), Abs(d) \div g>>

Zero == <<0, 1>>
NaN == <<0, 0>>
R(k) == <<k, 1>>
Finite(x) == x[2] # 0
NonZero(x) == ~(x[1] = 0 /\ x[2] # 0)      \* the C++ test  x != 0.0

Neg(x) == <<-x[1], x[2]>>
Add(x, y) ==
  IF x[2] = 0 /\ y[2] = 0
    THEN (IF x[1] = y[1] THEN x ELSE NaN)
    ELSE Norm(x[1] * y[2] + y[1] * x[2], x[2] * y[2])
Sub(x, y) == Add(x, Neg(y))
Mul(x, y) == Norm(x[1] * y[1], x[2] * y[2])
Div(x, y) ==
  LET s == IF y[1] < 0 THEN -1 ELSE 1
  IN Norm(s * x[1] * y[2], s * x[2] * y[1])

(* Eigen row / vector expressions; a row is a sequence of doubles *)
RECURSIVE RowAdd(_, _)
RowAdd(r1, r2) ==
  IF Len(r1) = 0 THEN <<>>
  ELSE <<Add(Head(r1), Head(r2))>> \o RowAdd(Tail(r1), Tail(r2))
RECURSIVE RowScale(_, _)
RowScale(c, r) ==
  IF Len(r) = 0 THEN <<>> ELSE <<Mul(c, Head(r))>> \o RowScale(c, Tail(r))
RECURSIVE RowDiv(_, _)
RowDiv(r, c) ==
  IF Len(r) = 0 THEN <<>> ELSE <<Div(Head(r), c)>> \o RowDiv(Tail(r), c)
RowSub(r1, r2) == RowAdd(r1, RowScale(R(-1), r2))
RECURSIVE Dot(_, _)
Dot(r1, r2) ==
  IF Len(r1) = 0 THEN Zero
  ELSE Add(Mul(Head(r1), Head(r2)), Dot(Tail(r1), Tail(r2)))
SquaredNorm(r) == Dot(r, r)

----------------------------------------------------------------------------
(* BandedSystem *)

NullPtr == 0
Addrs == 1..HeapSize
FreeBlock == [live |-> FALSE, cells |-> <<>>]
FreeAddrs(h) == {a \in Addrs : ~h[a].live}

\* BandedSystem's members after construction: ptrData = nullptr
NoSystem == [N |-> 0, lowerBw |-> 0, upperBw |-> 0, ptrData |-> NullPtr]

\* a destroy() that forgets the delete[]
destroyHeapLeak(h, sys) == h

\* destroy(): delete[] ptrData when it is not nullptr
destroyHeap(h, sys) ==
  IF sys.ptrData # NullPtr THEN [h EXCEPT ![sys.ptrData] = FreeBlock] ELSE h
destroyBad(h, sys) == sys.ptrData # NullPtr /\ ~h[sys.ptrData].live
destroy(sys) == [sys EXCEPT !.ptrData = NullPtr]

\* create(n, p, q) allocating at address a: destroy(), then new double[] filled with 0.0
actualSize(n, p, q) == n * (p + q + 1)
createHeap(h, sys, a, n, p, q) ==
  [destroyHeap(h, sys) EXCEPT
     ![a] = [live |-> TRUE, cells |-> [k \in 1..actualSize(n, p, q) |-> Zero]]]
create(a, n, p, q) == [N |-> n, lowerBw |-> p, upperBw |-> q, ptrData |-> a]

\* an operator() that leaves out upperBw
OffsetNoShift(n, q, i, j) == (i - j) * n + j

\* operator()(i, j): the linear offset of entry (i, j) in ptrData
Offset(n, q, i, j) == (i - j + q) * n + j
At(d, n, q, i, j) == d[Offset(n, q, i, j) + 1]
Put(d, n, q, i, j, v) == [d EXCEPT ![Offset(n, q, i, j) + 1] = v]

\* a factorizeLU that divides by the diagonal entry of the row it scales
RECURSIVE luScaleOwnDiagonal(_, _, _, _, _, _, _)
luScaleOwnDiagonal(d, n, q, k, cVl, i, iM) ==
  IF i > iM THEN d
  ELSE luScaleOwnDiagonal(IF NonZero(At(d, n, q, i, k))
                            THEN Put(d, n, q, i, k, Div(At(d, n, q, i, k), At(d, n, q, i, i)))
                            ELSE d,
                          n, q, k, cVl, i + 1, iM)

\* factorizeLU, lines 82-86: divide column k below the pivot
RECURSIVE luScale(_, _, _, _, _, _, _)
luScale(d, n, q, k, cVl, i, iM) ==
  IF i > iM THEN d
  ELSE luScale(IF NonZero(At(d, n, q, i, k))
                 THEN Put(d, n, q, i, k, Div(At(d, n, q, i, k), cVl))
                 ELSE d,
               n, q, k, cVl, i + 1, iM)

\* factorizeLU, lines 91-95: update column j of the trailing block
RECURSIVE luUpdateCol(_, _, _, _, _, _, _, _)
luUpdateCol(d, n, q, k, j, cVl, i, iM) ==
  IF i > iM THEN d
  ELSE luUpdateCol(IF NonZero(At(d, n, q, i, k))
                     THEN Put(d, n, q, i, j,
                              Sub(At(d, n, q, i, j), Mul(At(d, n, q, i, k), cVl)))
                     ELSE d,
                   n, q, k, j, cVl, i + 1, iM)

\* factorizeLU, lines 88-97
RECURSIVE luUpdate(_, _, _, _, _, _, _)
luUpdate(d, n, q, k, iM, j, jM) ==
  IF j > jM THEN d
  ELSE LET cVl == At(d, n, q, k, j)
       IN luUpdate(IF NonZero(cVl) THEN luUpdateCol(d, n, q, k, j, cVl, k + 1, iM) ELSE d,
                   n, q, k, iM, j + 1, jM)

\* factorizeLU, lines 79-98
RECURSIVE luLoop(_, _, _, _, _)
luLoop(d, n, p, q, k) ==
  IF k > n - 2 THEN d
  ELSE LET iM == Min(k + p, n - 1)
           cVl == At(d, n, q, k, k)
           d1 == luScale(d, n, q, k, cVl, k + 1, iM)
           jM == Min(k + q, n - 1)
       IN luLoop(luUpdate(d1, n, q, k, iM, k + 1, jM), n, p, q, k + 1)

factorizeLU(d, n, p, q) == luLoop(d, n, p, q, 0)

\* the inner loops of solve and solveAdj:  b.row(i) -= coef(i) * b.row(j), i = lo..hi;
\* tr = FALSE reads operator()(i, j), tr = TRUE reads operator()(j, i)
RECURSIVE elimRows(_, _, _, _, _, _, _, _)
elimRows(d, n, q, bb, j, i, hi, tr) ==
  IF i > hi THEN bb
  ELSE LET a == IF tr THEN At(d, n, q, j, i) ELSE At(d, n, q, i, j)
       IN elimRows(d, n, q,
                   IF NonZero(a) THEN [bb EXCEPT ![i + 1] = RowSub(bb[i + 1], RowScale(a, bb[j + 1]))]
                                 ELSE bb,
                   j, i + 1, hi, tr)

\* solve, lines 107-114
RECURSIVE solveFwd(_, _, _, _, _, _)
solveFwd(d, n, p, q, bb, j) ==
  IF j > n - 1 THEN bb
  ELSE solveFwd(d, n, p, q,
                elimRows(d, n, q, bb, j, j + 1, Min(j + p, n - 1), FALSE), j + 1)

\* solve, lines 115-123
RECURSIVE solveBwd(_, _, _, _, _)
solveBwd(d, n, q, bb, j) ==
  IF j < 0 THEN bb
  ELSE LET b1 == [bb EXCEPT ![j + 1] = RowDiv(bb[j + 1], At(d, n, q, j, j))]
       IN solveBwd(d, n, q,
                   elimRows(d, n, q, b1, j, Max(0, j - q), j - 1, FALSE), j - 1)

solve(d, n, p, q, bb) == solveBwd(d, n, q, solveFwd(d, n, p, q, bb, 0), n - 1)

\* a solveAdj that takes the diagonal of U for a unit diagonal
RECURSIVE adjFwdUnitDiagonal(_, _, _, _, _)
adjFwdUnitDiagonal(d, n, q, bb, j) ==
  IF j > n - 1 THEN bb
  ELSE adjFwdUnitDiagonal(d, n, q,
                          elimRows(d, n, q, bb, j, j + 1, Min(j + q, n - 1), TRUE), j + 1)

\* solveAdj, lines 132-140
RECURSIVE adjFwd(_, _, _, _, _)
adjFwd(d, n, q, bb, j) ==
  IF j > n - 1 THEN bb
  ELSE LET b1 == [bb EXCEPT ![j + 1] = RowDiv(bb[j + 1], At(d, n, q, j, j))]
       IN adjFwd(d, n, q,
                 elimRows(d, n, q, b1, j, j + 1, Min(j + q, n - 1), TRUE), j + 1)

\* solveAdj, lines 141-148
RECURSIVE adjBwd(_, _, _, _, _, _)
adjBwd(d, n, p, q, bb, j) ==
  IF j < 0 THEN bb
  ELSE adjBwd(d, n, p, q,
              elimRows(d, n, q, bb, j, Max(0, j - p), j - 1, TRUE), j - 1)

solveAdj(d, n, p, q, bb) == adjBwd(d, n, p, q, adjFwd(d, n, q, bb, 0), n - 1)

----------------------------------------------------------------------------
(* Band-solver driver: a caller that creates a band matrix, writes its      *)
(* entries through operator(), factorizes once and calls solve and          *)
(* solveAdj, then does the same with the explicit transpose.                *)

DiagVals == {1, 2}
OffVals == {0, 1}
InBand(n, p, q) ==
  {e \in (0..(n - 1)) \X (0..(n - 1)) : e[1] - e[2] <= p /\ e[2] - e[1] <= q}
OffDiag(n, p, q) == {e \in InBand(n, p, q) : e[1] # e[2]}
\* the matrices the driver tries: one value on the diagonal, any values off it
BandMatrices(n, p, q) ==
  {[e \in InBand(n, p, q) |-> IF e[1] = e[2] THEN dv ELSE g[e]] :
     dv \in DiagVals, g \in [OffDiag(n, p, q) -> OffVals]}
\* the right-hand sides the driver tries, m columns each: a dense one and a sparse one
RightHandSides(n, m) ==
  { [i \in 1..n |-> [c \in 1..m |-> R(i + 2 * (c - 1))]],
    [i \in 1..n |-> [c \in 1..m |-> IF i = n THEN R(c) ELSE Zero]] }

\* the caller's fill loop: A(i, j) = f[i, j] for every entry of f
RECURSIVE fill(_, _, _, _, _)
fill(d, n, q, f, todo) ==
  IF todo = {} THEN d
  ELSE LET e == CHOOSE x \in todo : TRUE
       IN fill(Put(d, n, q, e[1], e[2], R(f[e])), n, q, f, todo \ {e})

Transpose(f) == [e \in {<<x[2], x[1]>> : x \in DOMAIN f} |-> f[<<e[2], e[1]>>]]

Data(h, sys) == h[sys.ptrData].cells
\* the address new[] hands out: the lowest free one (the program never looks at it)
NewAddr(h) == CHOOSE a \in FreeAddrs(h) : \A c \in FreeAddrs(h) : a <= c

SplineIdle ==
  /\ N = 0 /\ headP = <<Zero, Zero>> /\ tailP = <<Zero, Zero>>
  /\ phase = "unused" /\ energy = Zero /\ inPs = <<>> /\ outcome = "none"
  /\ hist = "none"
MapIdle == cur = <<0, 0>> /\ owner = {}
BandIdle ==
  /\ AT = NoSystem /\ A0 = <<>> /\ B0 = <<>> /\ bAdj = <<>> /\ bT = <<>> /\ pc = "unused"

splineVars == <<N, headP, tailP, phase, energy, inPs, outcome, hist>>
mapVars == <<cur, owner>>
bandVars == <<AT, A0, B0, bAdj, bT, pc>>

InitBand ==
  /\ heap = [a \in Addrs |-> FreeBlock]
  /\ A = NoSystem /\ AT = NoSystem
  /\ b = <<>> /\ bAdj = <<>> /\ bT = <<>>
  /\ dfree = FALSE
  /\ pc = "start"
  /\ \E n \in 1..MaxN, p \in 0..MaxBw, q \in 0..MaxBw, m \in 1..MaxCols :
       /\ A0 \in {[n |-> n, p |-> p, q |-> q, f |-> f] : f \in BandMatrices(n, p, q)}
       /\ B0 \in RightHandSides(n, m)
  /\ SplineIdle /\ MapIdle

BuildA ==
  /\ pc = "start"
  /\ \E a \in {NewAddr(heap)} :
       /\ A' = create(a, A0.n, A0.p, A0.q)
       /\ heap' = [createHeap(heap, A, a, A0.n, A0.p, A0.q) EXCEPT
                     ![a].cells = fill(@, A0.n, A0.q, A0.f, DOMAIN A0.f)]
  /\ pc' = "built"
  /\ UNCHANGED <<b, dfree, AT, A0, B0, bAdj, bT, splineVars, mapVars>>

FactorizeA ==
  /\ pc = "built"
  /\ heap' = [heap EXCEPT ![A.ptrData].cells = factorizeLU(@, A.N, A.lowerBw, A.upperBw)]
  /\ pc' = "factored"
  /\ UNCHANGED <<A, b, dfree, AT, A0, B0, bAdj, bT, splineVars, mapVars>>

SolveA ==
  /\ pc = "factored"
  /\ b' = solve(Data(heap, A), A.N, A.lowerBw, A.upperBw, B0)
  /\ pc' = "solved"
  /\ UNCHANGED <<heap, A, dfree, AT, A0, B0, bAdj, bT, splineVars, mapVars>>

SolveAdjA ==
  /\ pc = "solved"
  /\ bAdj' = solveAdj(Data(heap, A), A.N, A.lowerBw, A.upperBw, B0)
  /\ pc' = "adjoint"
  /\ UNCHANGED <<heap, A, b, dfree, AT, A0, B0, bT, splineVars, mapVars>>

BuildAT ==
  /\ pc = "adjoint"
  /\ \E a \in {NewAddr(heap)} :
       /\ AT' = create(a, A0.n, A0.q, A0.p)
       /\ heap' = [createHeap(heap, AT, a, A0.n, A0.q, A0.p) EXCEPT
                     ![a].cells = fill(@, A0.n, A0.p, Transpose(A0.f), DOMAIN Transpose(A0.f))]
  /\ pc' = "builtT"
  /\ UNCHANGED <<A, b, dfree, A0, B0, bAdj, bT, splineVars, mapVars>>

FactorizeAT ==
  /\ pc = "builtT"
  /\ heap' = [heap EXCEPT ![AT.ptrData].cells = factorizeLU(@, AT.N, AT.lowerBw, AT.upperBw)]
  /\ pc' = "factoredT"
  /\ UNCHANGED <<A, b, dfree, AT, A0, B0, bAdj, bT, splineVars, mapVars>>

SolveAT ==
  /\ pc = "factoredT"
  /\ bT' = solve(Data(heap, AT), AT.N, AT.lowerBw, AT.upperBw, B0)
  /\ pc' = "done"
  /\ UNCHANGED <<heap, A, b, dfree, AT, A0, B0, bAdj, splineVars, mapVars>>

NextBand ==
  \/ BuildA \/ FactorizeA \/ SolveA \/ SolveAdjA
  \/ BuildAT \/ FactorizeAT \/ SolveAT

SpecBand == InitBand /\ [][NextBand]_vars

\* dense reference: (M * X)[i][c] with M given on its band, zero elsewhere
RECURSIVE RowTimes(_, _, _, _, _)
RowTimes(f, i, X, c, j) ==
  IF j < 0 THEN Zero
  ELSE Add(IF <<i, j>> \in DOMAIN f THEN Mul(R(f[<<i, j>>]), X[j + 1][c]) ELSE Zero,
           RowTimes(f, i, X, c, j - 1))
Satisfies(f, n, X, B) ==
  \A i \in 0..(n - 1) : \A c \in 1..Len(B[1]) : RowTimes(f, i, X, c, n - 1) = B[i + 1][c]

\* every pivot met by the elimination (the diagonal of U) is a nonzero number
NoZeroPivot(d, n, q) ==
  \A k \in 0..(n - 1) : Finite(At(d, n, q, k, k)) /\ NonZero(At(d, n, q, k, k))

(* C1: after factorizeLU() once and solve(B), every column of B holds the X
   with A_original * X = B_original, whenever no pivot was zero *)
C1_SolveMatchesDense ==
  (pc \in {"solved", "adjoint"} /\ NoZeroPivot(Data(heap, A), A.N, A.upperBw))
    => Satisfies(A0.f, A0.n, b, B0)
C1_Witness ==
  /\ pc = "solved" /\ A0.n = 3 /\ A0.p = 1 /\ A0.q = 1 /\ Len(B0[1]) = 2
  /\ NoZeroPivot(Data(heap, A), A.N, A.upperBw)
  /\ \E i \in 1..3 : \E c \in 1..2 : b[i][c][2] > 1

(* C2: factorizeLU() on A then solveAdj(B) gives what building the explicit
   transpose (bandwidths q, p), factorizing it and solve(B) gives, i.e. the X
   with transpose(A_original) * X = B_original *)
C2_AdjMatchesTranspose ==
  (pc = "done" /\ NoZeroPivot(Data(heap, A), A.N, A.upperBw))
    => /\ bAdj = bT
       /\ Satisfies(Transpose(A0.f), A0.n, bAdj, B0)
C2_Witness ==
  /\ pc = "done" /\ A0.n = 3 /\ A0.p = 1 /\ A0.q = 0
  /\ NoZeroPivot(Data(heap, A), A.N, A.upperBw)
  /\ bAdj # B0 /\ bAdj = bT /\ bAdj # b
ZeroPivotSeen == pc = "done" /\ ~NoZeroPivot(Data(heap, A), A.N, A.upperBw)

----------------------------------------------------------------------------
(* CubicSpline *)

\* the arguments the caller tries
Heads == {<<R(0), R(0)>>}
Tails == {<<R(2), R(0)>>, <<R(3), R(0)>>}
InnerPts == {<<R(1), R(0)>>, <<R(2), R(0)>>, <<R(1), R(1)>>}
RECURSIVE SeqsOf(_, _)
SeqsOf(S, len) ==
  IF len = 0 THEN {<<>>}
  ELSE {Append(sq, x) : sq \in SeqsOf(S, len - 1), x \in S}
PointLists == UNION {SeqsOf(InnerPts, len) : len \in 0..(MaxSeg - 1)}
\* the lists a caller passes when it gets the count wrong, one per length
MiscountLists == {[k \in 1..len |-> <<R(k), R(1)>>] : len \in 0..MaxSeg}
\* the arguments tried on a spline of n pieces: every list of n - 1 points, and
\* the lists of any other length
FitArgs(n) ==
  {P \in PointLists : Len(P) = n - 1} \cup {P \in MiscountLists : Len(P) # n - 1}

\* what an uninitialized double may hold
Garbage == {NaN, Zero}

\* b.resize(rows, 2): Eigen keeps the data when the size is unchanged and
\* otherwise hands out uninitialized storage
resize(bb, rows, g) == IF Len(bb) = rows THEN bb ELSE [k \in 1..rows |-> <<g, g>>]

\* setInnerPoints, lines 204-210: X = head, inPs..., tail; a column of inPs
\* that does not exist reads as g
Waypoints(head, tail, n, P, g) ==
  [i \in 0..n |-> IF i = n THEN tail
                  ELSE IF i = 0 THEN head
                  ELSE IF i <= Len(P) THEN P[i] ELSE <<g, g>>]

\* a setInnerPoints that adds 4 to the diagonal instead of storing it
RECURSIVE fillSystemAccumulate(_, _, _, _, _, _)
fillSystemAccumulate(d, bb, n, q, X, i) ==
  IF i >= n THEN [data |-> d, rhs |-> bb]
  ELSE LET d0 == Put(d, n, q, i, i, Add(At(d, n, q, i, i), R(4)))
           d1 == IF i = 0 THEN Put(d0, n, q, i, i + 1, R(1))
                 ELSE IF i = n - 1 THEN Put(d0, n, q, i, i - 1, R(1))
                 ELSE Put(Put(d0, n, q, i, i - 1, R(1)), n, q, i, i + 1, R(1))
           b1 == [bb EXCEPT ![i + 1] = RowScale(R(3), RowSub(X[i + 2], X[i]))]
       IN fillSystemAccumulate(d1, b1, n, q, X, i + 1)

\* setInnerPoints, lines 212-224: fill A and b row by row
RECURSIVE fillSystem(_, _, _, _, _, _)
fillSystem(d, bb, n, q, X, i) ==
  IF i >= n THEN [data |-> d, rhs |-> bb]
  ELSE LET d0 == Put(d, n, q, i, i, R(4))
           d1 == IF i = 0 THEN Put(d0, n, q, i, i + 1, R(1))
                 ELSE IF i = n - 1 THEN Put(d0, n, q, i, i - 1, R(1))
                 ELSE Put(Put(d0, n, q, i, i - 1, R(1)), n, q, i, i + 1, R(1))
           b1 == [bb EXCEPT ![i + 1] = RowScale(R(3), RowSub(X[i + 2], X[i]))]
       IN fillSystem(d1, b1, n, q, X, i + 1)

\* a setInnerPoints that stores the solved tangents one row too early
TangentsShifted(bb, n) ==
  [i \in 0..n |-> IF i < n - 1 THEN bb[i + 1] ELSE <<Zero, Zero>>]

\* setInnerPoints, lines 229-232: D = Zero(N + 1, 2), D.row(i) = b.row(i - 1)
Tangents(bb, n) ==
  [i \in 0..n |-> IF 1 <= i /\ i < n THEN bb[i] ELSE <<Zero, Zero>>]

\* a setInnerPoints with a sign slip in d(i)
coeffRowSignSlip(X, D, i, k) ==
  IF k = 3 THEN X[i]
  ELSE IF k = 2 THEN D[i]
  ELSE IF k = 1 THEN RowSub(RowSub(RowScale(R(3), RowSub(X[i + 1], X[i])),
                                   RowScale(R(2), D[i])), D[i + 1])
  ELSE RowSub(RowAdd(RowScale(R(2), RowSub(X[i], X[i + 1])), D[i]), D[i + 1])

\* setInnerPoints, lines 238-250: row k of block i of b, that is column k of coeffMat
coeffRow(X, D, i, k) ==
  IF k = 3 THEN X[i]
  ELSE IF k = 2 THEN D[i]
  ELSE IF k = 1 THEN RowSub(RowSub(RowScale(R(3), RowSub(X[i + 1], X[i])),
                                   RowScale(R(2), D[i])), D[i + 1])
  ELSE RowAdd(RowAdd(RowScale(R(2), RowSub(X[i], X[i + 1])), D[i]), D[i + 1])
Coefficients(X, D, n) ==
  [r \in 1..(4 * n) |-> coeffRow(X, D, (r - 1) \div 4, (r - 1) % 4)]

\* setInnerPoints as a whole: the new contents of ptrData and of b
fit(d, sys, bb, n, head, tail, P, g) ==
  LET X == Waypoints(head, tail, n, P, g)
      sy == fillSystem(d, bb, sys.N, sys.upperBw, X, 0)
      lu == factorizeLU(sy.data, sys.N, sys.lowerBw, sys.upperBw)
      sol == solve(lu, sys.N, sys.lowerBw, sys.upperBw, sy.rhs)
  IN [data |-> lu, b |-> Coefficients(X, Tangents(sol, n), n)]

\* getStretchEnergy, lines 272-281
RECURSIVE stretchEnergy(_, _, _)
stretchEnergy(bb, n, i) ==
  IF i >= n THEN Zero
  ELSE LET d == bb[4 * i + 2]      \* d = coeffMat.col(1)
           c == bb[4 * i + 1]      \* c = coeffMat.col(0)
       IN Add(Add(Add(Mul(R(4), SquaredNorm(c)), Mul(R(12), SquaredNorm(d))),
                  Mul(R(12), Dot(d, c))),
              stretchEnergy(bb, n, i + 1))

Init ==
  /\ heap = [a \in Addrs |-> FreeBlock]
  /\ A = NoSystem
  /\ b = <<>>
  /\ N = 0 /\ headP = <<Zero, Zero>> /\ tailP = <<Zero, Zero>>
  /\ phase = "Unconfigured"
  /\ energy = Zero /\ inPs = <<>> /\ outcome = "none"
  /\ dfree = FALSE /\ hist = "none"
  /\ BandIdle /\ MapIdle

setConditions(headPos, tailPos, pieceNum) ==
  /\ phase \in {"Unconfigured", "Configured", "Fitted"}
  /\ headP' = headPos /\ tailP' = tailPos /\ N' = pieceNum
  /\ \E g \in Garbage : b' = resize(b, pieceNum - 1, g)
  /\ \E a \in {NewAddr(destroyHeap(heap, A))} :
       /\ heap' = createHeap(heap, A, a, pieceNum - 1, 1, 1)
       /\ A' = create(a, pieceNum - 1, 1, 1)
  /\ dfree' = (dfree \/ destroyBad(heap, A))
  /\ phase' = "Configured"
  /\ energy' = Zero /\ inPs' = <<>> /\ outcome' = "returned"
  /\ hist' = IF phase = "Unconfigured" THEN "first" ELSE "reconf"
  /\ UNCHANGED <<bandVars, mapVars>>

\* inPs has at least N - 1 columns: every read is of an existing column
setInnerPoints(P) ==
  /\ phase \in {"Configured", "Fitted"}
  /\ P \in FitArgs(N)
  /\ Len(P) >= N - 1
  /\ LET r == fit(Data(heap, A), A, b, N, headP, tailP, P, Zero)
     IN /\ heap' = [heap EXCEPT ![A.ptrData].cells = r.data]
        /\ b' = r.b
  /\ phase' = "Fitted"
  /\ energy' = Zero /\ inPs' = P /\ outcome' = "returned"
  /\ hist' = (IF phase = "Fitted" THEN "refit" ELSE hist)
  /\ UNCHANGED <<A, N, headP, tailP, dfree, bandVars, mapVars>>

\* inPs has fewer than N - 1 columns: inPs.col(i - 1) reads past the argument;
\* Eigen's assertion stops the program, or (assertions off) the read yields anything
setInnerPointsShort(P) ==
  /\ phase \in {"Configured", "Fitted"}
  /\ P \in FitArgs(N)
  /\ Len(P) < N - 1
  /\ \/ /\ phase' = "Aborted" /\ outcome' = "aborted"
        /\ UNCHANGED <<heap, b, energy, inPs, hist>>
     \/ /\ \E g \in Garbage :
             LET r == fit(Data(heap, A), A, b, N, headP, tailP, P, g)
             IN /\ heap' = [heap EXCEPT ![A.ptrData].cells = r.data]
                /\ b' = r.b
        /\ phase' = "Fitted"
        /\ energy' = Zero /\ inPs' = P /\ outcome' = "returned"
        /\ hist' = (IF phase = "Fitted" THEN "refit" ELSE hist)
  /\ UNCHANGED <<A, N, headP, tailP, dfree, bandVars, mapVars>>

getStretchEnergy ==
  /\ phase = "Fitted"
  /\ outcome # "energy"
  /\ energy' = stretchEnergy(b, N, 0)
  /\ outcome' = "energy"
  /\ UNCHANGED <<heap, A, b, N, headP, tailP, phase, inPs, dfree, hist, bandVars, mapVars>>

\* ~CubicSpline()
Destructor ==
  /\ phase \in {"Unconfigured", "Configured", "Fitted"}
  /\ heap' = destroyHeap(heap, A)
  /\ A' = destroy(A)
  /\ dfree' = (dfree \/ destroyBad(heap, A))
  /\ phase' = "Destroyed"
  /\ energy' = Zero /\ outcome' = "returned"
  /\ UNCHANGED <<b, N, headP, tailP, inPs, hist, bandVars, mapVars>>

Next ==
  \/ \E h \in Heads, t \in Tails, n \in 1..MaxSeg : setConditions(h, t, n)
  \/ \E P \in PointLists \cup MiscountLists : setInnerPoints(P)
  \/ \E P \in PointLists \cup MiscountLists : setInnerPointsShort(P)
  \/ getStretchEnergy
  \/ Destructor

Spec == Init /\ [][Next]_vars

----------------------------------------------------------------------------
(* Properties of CubicSpline *)

\* getCoeffs(): block i of b holds d_i, c_i, b_i, a_i in this order
coefD(i) == b[4 * i + 1]
coefC(i) == b[4 * i + 2]
coefB(i) == b[4 * i + 3]
coefA(i) == b[4 * i + 4]

Origin == <<Zero, Zero>>
\* the waypoints and tangents the caller means
WayPt(i) == IF i = 0 THEN headP ELSE IF i = N THEN tailP ELSE inPs[i]
Tangent(i) == IF i = 0 \/ i = N THEN Origin ELSE coefB(i)

\* a fit whose argument had exactly N - 1 columns
ExactFit == phase = "Fitted" /\ Len(inPs) = N - 1
Positive(x) == x[1] > 0 /\ x[2] > 0

(* C3: for every N >= 2 the tangents solve the tridiagonal system
   D[i-1] + 4 D[i] + D[i+1] = 3 (X[i+1] - X[i-1]), i = 1..N-1, and the second
   derivative is continuous at every interior junction: 2 c_i + 6 d_i = 2 c_{i+1} *)
C3_TangentSystem ==
  (ExactFit /\ N >= 2) =>
    /\ \A i \in 1..(N - 1) :
         RowAdd(RowAdd(Tangent(i - 1), RowScale(R(4), Tangent(i))), Tangent(i + 1))
           = RowScale(R(3), RowSub(WayPt(i + 1), WayPt(i - 1)))
    /\ \A i \in 0..(N - 2) :
         RowAdd(RowScale(R(2), coefC(i)), RowScale(R(6), coefD(i)))
           = RowScale(R(2), coefC(i + 1))

\* the energy the documentation states: sum of 4|c_i|^2 + 12|d_i|^2 + 12 c_i.d_i
RECURSIVE DocEnergy(_)
DocEnergy(i) ==
  IF i >= N THEN Zero
  ELSE Add(Add(Add(Mul(R(4), SquaredNorm(coefC(i))), Mul(R(12), SquaredNorm(coefD(i)))),
               Mul(R(12), Dot(coefC(i), coefD(i)))),
           DocEnergy(i + 1))

(* C4: getStretchEnergy returns the sum over the segments of
   4|c_i|^2 + 12|d_i|^2 + 12 (c_i . d_i), c_i the s^2 and d_i the s^3 coefficient *)
C4_EnergyFormula ==
  (ExactFit /\ outcome = "energy") => energy = DocEnergy(0)

\* head, interior points and tail are colinear and evenly spaced
EvenlySpaced ==
  \A i \in 1..(N - 1) : RowSub(WayPt(i + 1), WayPt(i)) = RowSub(WayPt(1), WayPt(0))

(* C5 as stated: colinear evenly spaced waypoints give c_i = d_i = (0,0) for
   every segment and a stretch energy of 0 *)
C5_StraightLine ==
  (ExactFit /\ N >= 2 /\ outcome = "energy" /\ EvenlySpaced) =>
    /\ \A i \in 0..(N - 1) : coefC(i) = Origin /\ coefD(i) = Origin
    /\ energy = Zero

(* C5 as amended: colinear evenly spaced waypoints with head and tail distinct
   do not give a straight line: the tangent at the head is (0,0), so c_0 and
   d_0 are not both (0,0), and getStretchEnergy returns a value > 0 *)
C5_ClampedNotStraight ==
  (ExactFit /\ N >= 2 /\ outcome = "energy" /\ EvenlySpaced /\ headP # tailP) =>
    /\ ~(coefC(0) = Origin /\ coefD(0) = Origin)
    /\ coefB(0) = Origin
    /\ Positive(energy)
C5_Witness ==
  /\ ExactFit /\ outcome = "energy" /\ EvenlySpaced
  /\ N = 3 /\ headP = <<R(0), R(0)>> /\ tailP = <<R(3), R(0)>>
  /\ inPs = << <<R(1), R(0)>>, <<R(2), R(0)>> >>

(* C6: setConditions with segmentCount < 2, and setInnerPoints with a number of
   points other than segmentCount - 1, end in a reported error and produce no
   coefficients *)
C6_MismatchReported ==
  /\ (phase \in {"Configured", "Fitted"} /\ N < 2) => outcome = "error"
  /\ (phase = "Fitted") => Len(inPs) = N - 1

(* C7: at most one backing store is live; the live one is the store of A and
   has 3 * (N - 1) cells, all zero right after setConditions; no store is
   released twice and none is left after destruction *)
LiveAddrs == {a \in Addrs : heap[a].live}
C7_OneStore ==
  /\ Cardinality(LiveAddrs) <= 1
  /\ ~dfree
  /\ \A a \in LiveAddrs : a = A.ptrData /\ Len(heap[a].cells) = 3 * (N - 1)
  /\ phase \in {"Configured", "Fitted"} => A.ptrData \in LiveAddrs
  /\ phase = "Configured" => \A k \in 1..(3 * (N - 1)) : Data(heap, A)[k] = Zero
  /\ phase \in {"Unconfigured", "Destroyed"} => LiveAddrs = {} /\ A.ptrData = NullPtr
C7_Witness ==
  phase = "Destroyed" /\ hist = "reconf" /\ N = 3 /\ Len(b) = 2

(* C8: every segment interpolates its waypoints from the stored coefficients:
   a_i = X[i] and a_i + b_i + c_i + d_i = X[i+1] *)
C8_Interpolates ==
  ExactFit =>
    \A i \in 0..(N - 1) :
      /\ coefA(i) = WayPt(i)
      /\ RowAdd(RowAdd(RowAdd(coefA(i), coefB(i)), coefC(i)), coefD(i)) = WayPt(i + 1)
C8_Witness ==
  /\ ExactFit /\ N = 3 /\ inPs[2] = <<R(1), R(1)>>
  /\ coefB(1) # Origin /\ coefB(2) # Origin

\* the coefficients a fresh CubicSpline computes from the last arguments alone
FreshCoeffs ==
  LET sys == create(1, N - 1, 1, 1)
      d0 == [k \in 1..actualSize(N - 1, 1, 1) |-> Zero]
  IN fit(d0, sys, resize(<<>>, N - 1, NaN), N, headP, tailP, inPs, Zero).b

(* C10: whatever calls came before, the coefficients left by setInnerPoints(P)
   are those of a fresh CubicSpline given the last setConditions arguments and P *)
C10_HistoryIndependent ==
  (phase = "Fitted" /\ Len(inPs) >= N - 1) => b = FreshCoeffs
C10_Witness ==
  /\ phase = "Fitted" /\ hist = "refit" /\ Len(inPs) = N - 1 /\ N = 3
  /\ coefB(1) # coefB(2)

----------------------------------------------------------------------------
(* Storage-mapping driver: a caller that creates a band matrix and writes   *)
(* every in-band entry once through operator(), row by row.                 *)

MaxMapN == 4     \* largest matrix of the mapping driver
MaxMapBw == 3    \* largest band width of the mapping driver

Before(e, f) == e[1] < f[1] \/ (e[1] = f[1] /\ e[2] < f[2])
\* the entries of the band still to write, in row order
Rest(n, p, q, e) == {f \in InBand(n, p, q) : Before(e, f)}
First(S) == CHOOSE e \in S : \A f \in S : e = f \/ Before(e, f)
Done == <<-1, -1>>

InitMap ==
  /\ heap = [a \in Addrs |-> FreeBlock]
  /\ A = NoSystem
  /\ b = <<>> /\ dfree = FALSE
  /\ cur = <<0, 0>> /\ owner = {}
  /\ SplineIdle /\ BandIdle

CreateMap ==
  /\ A = NoSystem
  /\ \E n \in 1..MaxMapN, p \in 0..MaxMapBw, q \in 0..MaxMapBw :
       /\ A' = create(NewAddr(heap), n, p, q)
       /\ heap' = createHeap(heap, A, NewAddr(heap), n, p, q)
  /\ UNCHANGED <<b, dfree, cur, owner, splineVars, bandVars>>

\* A(i, j) = 1 for the entry cur = (i, j)
WriteEntry ==
  /\ A # NoSystem /\ cur # Done
  /\ owner' = owner \cup {<<Offset(A.N, A.upperBw, cur[1], cur[2]), cur>>}
  /\ heap' = [heap EXCEPT ![A.ptrData].cells = Put(@, A.N, A.upperBw, cur[1], cur[2], R(1))]
  /\ cur' = IF Rest(A.N, A.lowerBw, A.upperBw, cur) = {} THEN Done
            ELSE First(Rest(A.N, A.lowerBw, A.upperBw, cur))
  /\ UNCHANGED <<A, b, dfree, splineVars, bandVars>>

NextMap == CreateMap \/ WriteEntry

SpecMap == InitMap /\ [][NextMap]_vars

BlockOffsets == 0..(actualSize(A.N, A.lowerBw, A.upperBw) - 1)
Injective == \A x \in owner : \A y \in owner : x[1] = y[1] => x[2] = y[2]
InsideBlock == \A x \in owner : x[1] \in BlockOffsets
Onto == \A k \in BlockOffsets : \E x \in owner : x[1] = k

(* C9 as stated: the storage mapping restricted to the in-band entries is a
   bijection onto the block 0 .. N*(p+q+1)-1: injective, inside the block, and
   every cell is the image of an in-band entry *)
C9_Bijective ==
  (A # NoSystem /\ cur = Done) => (Injective /\ InsideBlock /\ Onto)

(* C9 as amended: the storage mapping restricted to the in-band entries is an
   injection into the block 0 .. N*(p+q+1)-1; it is onto the block exactly
   when p = q = 0, otherwise cells of the off-diagonal rows stay unused *)
C9_InjectiveIntoBlock ==
  /\ Injective /\ InsideBlock
  /\ (A # NoSystem /\ cur = Done) =>
       /\ Cardinality(owner) = Cardinality(InBand(A.N, A.lowerBw, A.upperBw))
       /\ Onto <=> (A.lowerBw = 0 /\ A.upperBw = 0)
       /\ \A k \in BlockOffsets : Data(heap, A)[k + 1] = IF \E x \in owner : x[1] = k THEN R(1) ELSE Zero
C9_Witness ==
  /\ cur = Done /\ A.N = 3 /\ A.lowerBw = 1 /\ A.upperBw = 2
  /\ Cardinality(owner) = 8 /\ ~Onto

====
